---- MODULE Spec2Model ----
(***************************************************************************)
(* Model of app/dashboard.py: one Streamlit process serving one session.   *)
(* The script is re-evaluated top to bottom on every user interaction; a   *)
(* run is Load (lines 7-76), Controls (79-108), Filter (112-122) and       *)
(* Render (126-168).  load_data is memoized by st.cache_data.             *)
(*                                                                         *)
(* A CSV cell is [kind, v]: kind "int" is the integer v, "half" is the     *)
(* number v + 0.5, "text" is non-numeric text and "blank" an empty cell.   *)
(* A blank category cell is read by pandas as NaN; it is written "".       *)
(* Amounts are whole currency units.                                      *)
(***************************************************************************)
EXTENDS Integers, Sequences, FiniteSets, TLC

VARIABLES file, cache, reads, pc, cache_hit, df, min_hour, max_hour, min_amt,
          max_amt, unique_categories, time_range, amount_range,
          merchant_category, df_filtered, out

vars == <<file, cache, reads, pc, cache_hit, df, min_hour, max_hour, min_amt,
          max_amt, unique_categories, time_range, amount_range,
          merchant_category, df_filtered, out>>

(* ---------------------------- bounds ----------------------------------- *)

MaxRows == 2

MaxReads == 2

(* ------------------------ values and files ----------------------------- *)

Num(n) == [kind |-> "int", v |-> n]

Half(n) == [kind |-> "half", v |-> n]

Text == [kind |-> "text", v |-> 0]

Blank == [kind |-> "blank", v |-> 0]

NaN == ""

file_path_to_csv == "data/cleansed/FraudTest_clean.csv"

required_columns == <<"hour", "amt", "category", "weekday">>

Row(h, a, c, w, f) ==
    [hour |-> h, amt |-> a, category |-> c, weekday |-> w, is_fraud |-> f]

(* Rows a file may hold: valid rows, and one row for each way a cell can   *)
(* be invalid or blank.                                                    *)
RawRows ==
    { Row(Num(1), Num(10), "A", "Mon", Num(0)),
      Row(Num(2), Num(20), "B", "Tue", Blank),
      Row(Num(2), Num(10), "A", "Mon", Num(1)),
      Row(Num(1), Num(20), "B", "Tue", Num(0)),
      Row(Blank, Num(10), "A", "Mon", Num(0)),
      Row(Num(1), Text, "B", "Tue", Num(1)),
      Row(Half(2), Num(20), "A", "Mon", Num(0)),
      Row(Num(2), Num(20), NaN, "Tue", Num(0)) }

SeqsUpTo(S, n) == UNION { [1..k -> S] : k \in 0..n }

RangeOf(s) == { s[i] : i \in DOMAIN s }

RequiredSet == RangeOf(required_columns)

AllColumns == RequiredSet \cup {"is_fraud"}

MissingFile == [kind |-> "missing", columns |-> {}, rows |-> <<>>]

EmptyFile == [kind |-> "empty", columns |-> {}, rows |-> <<>>]

UnreadableFile == [kind |-> "unreadable", columns |-> {}, rows |-> <<>>]

Table(cols, rows) == [kind |-> "table", columns |-> cols, rows |-> rows]

(* Files with every required column carry any rows; a file lacking a       *)
(* required column is rejected before its rows are looked at.              *)
Files ==
    {MissingFile, EmptyFile, UnreadableFile}
      \cup { Table(c, r) : c \in {RequiredSet, AllColumns},
                           r \in SeqsUpTo(RawRows, MaxRows) }
      \cup { Table(c, r) : c \in (SUBSET AllColumns) \ {{}, RequiredSet, AllColumns},
                           r \in SeqsUpTo({Row(Num(1), Num(10), "A", "Mon", Num(0))}, 1) }

(* The five-row sample of the end-to-end example. *)
ExampleFile ==
    Table(RequiredSet,
          << Row(Num(1), Num(10), "A", "Mon", Blank),
             Row(Num(5), Num(50), "B", "Mon", Blank),
             Row(Num(10), Num(100), "A", "Mon", Blank),
             Row(Num(15), Num(500), "C", "Mon", Blank),
             Row(Num(20), Num(1000), "B", "Mon", Blank) >>)

(* What the file may be replaced by between two runs. *)
AltFiles ==
    { MissingFile,
      Table(AllColumns, <<Row(Num(2), Num(20), "B", "Tue", Num(1))>>) }

(* ----------------------------- elements -------------------------------- *)

El(e, i, a, k) == [el |-> e, id |-> i, arg |-> a, n |-> k]

(* ------------------------------ pandas --------------------------------- *)

(* pd.to_numeric(errors='coerce') on one cell. *)
to_numeric(c) ==
    CASE c.kind = "int" -> [nan |-> FALSE, v |-> c.v, half |-> FALSE]
      [] c.kind = "half" -> [nan |-> FALSE, v |-> c.v, half |-> TRUE]
      [] OTHER -> [nan |-> TRUE, v |-> 0, half |-> FALSE]

(* .astype('Int64') raises on a float that is not integral. *)
astype_Int64_raises(col) ==
    \E i \in DOMAIN col : ~col[i].nan /\ col[i].half

(* .astype(bool) on one cell: zero is False, everything else (NaN too) True. *)
astype_bool(c) == IF c.kind = "int" /\ c.v = 0 THEN "False" ELSE "True"

isnull(x) == x = "NA"

RECURSIVE SelectRows(_, _)
SelectRows(rows, keep) ==
    IF rows = <<>> THEN <<>>
    ELSE IF keep[1] THEN <<Head(rows)>> \o SelectRows(Tail(rows), Tail(keep))
         ELSE SelectRows(Tail(rows), Tail(keep))

(* ----------------------------- load_data ------------------------------- *)

Failed(status, msgs) ==
    [status |-> status, df |-> [columns |-> {}, rows |-> <<>>], msgs |-> msgs]

FirstMissing_last(cols) ==
    LET miss == { i \in DOMAIN required_columns : required_columns[i] \notin cols }
    IN IF miss = {} THEN 0 ELSE CHOOSE i \in miss : \A j \in miss : i >= j

FirstMissing(cols) ==
    LET miss == { i \in DOMAIN required_columns : required_columns[i] \notin cols }
    IN IF miss = {} THEN 0 ELSE CHOOSE i \in miss : \A j \in miss : i <= j

(* pd.read_csv: what it raises, or "ok" when it returns a frame.  A file   *)
(* with no header line has no columns to parse.                           *)
read_csv(f) ==
    CASE f.kind = "missing" -> "FileNotFoundError"
      [] f.kind = "empty" -> "EmptyDataError"
      [] f.kind = "table" -> "ok"
      [] OTHER -> "Exception"

except_clause_without_EmptyData(e) ==
    IF e = "FileNotFoundError" THEN
        Failed("FileNotFound", << El("error", "FileNotFound", file_path_to_csv, 0),
                                  El("markdown", "ProjectLayout", "", 0) >>)
    ELSE
        Failed("UnexpectedLoadFailure", << El("error", "UnexpectedLoadFailure", "", 0) >>)

(* The except clauses of load_data, lines 46-67. *)
except_clause(e) ==
    IF e = "FileNotFoundError" THEN
        Failed("FileNotFound", << El("error", "FileNotFound", file_path_to_csv, 0),
                                  El("markdown", "ProjectLayout", "", 0) >>)
    ELSE IF e = "EmptyDataError" THEN
        Failed("EmptyData", << El("error", "EmptyData", file_path_to_csv, 0) >>)
    ELSE
        Failed("UnexpectedLoadFailure", << El("error", "UnexpectedLoadFailure", "", 0) >>)

load_data(f) ==
    IF read_csv(f) # "ok" THEN
        except_clause(read_csv(f))
    ELSE IF FirstMissing(f.columns) # 0 THEN
        Failed("MissingColumn",
               << El("error", "MissingColumn", required_columns[FirstMissing(f.columns)], 0) >>)
    ELSE
        LET amt == [i \in DOMAIN f.rows |-> to_numeric(f.rows[i].amt)]
            hour == [i \in DOMAIN f.rows |-> to_numeric(f.rows[i].hour)]
        IN IF astype_Int64_raises(hour) THEN
               except_clause("TypeError")
           ELSE
               LET initial_rows == Len(f.rows)
                   keep == [i \in DOMAIN f.rows |-> ~amt[i].nan /\ ~hour[i].nan]
                   clean == [i \in DOMAIN f.rows |->
                               [hour |-> hour[i].v, amt |-> amt[i].v,
                                category |-> f.rows[i].category,
                                weekday |-> f.rows[i].weekday,
                                is_fraud |-> IF "is_fraud" \in f.columns
                                             THEN astype_bool(f.rows[i].is_fraud)
                                             ELSE "NA"]]
                   kept == SelectRows(clean, keep)
               IN [status |-> "ok",
                   df |-> [columns |-> f.columns, rows |-> kept],
                   msgs |-> IF Len(kept) < initial_rows
                            THEN << El("warning", "RowsDropped", "", initial_rows - Len(kept)) >>
                            ELSE <<>>]

(* ------------------------- st.cache_data ------------------------------- *)

NoEntry == <<>>

cached_load_data_uncached(entry, f) ==
    LET r == load_data(f)
    IN [hit |-> FALSE, status |-> r.status, df |-> r.df, msgs |-> r.msgs,
        entry |-> IF r.status = "ok"
                  THEN << [df |-> r.df, msgs |-> r.msgs] >>
                  ELSE NoEntry]

(* The cached call: a hit returns the stored value and replays the         *)
(* elements the function emitted; a miss runs the body and stores the      *)
(* value only when the body returns.                                       *)
cached_load_data(entry, f) ==
    IF entry # NoEntry
    THEN [hit |-> TRUE, status |-> "ok", df |-> entry[1].df, msgs |-> entry[1].msgs,
          entry |-> entry]
    ELSE LET r == load_data(f)
         IN [hit |-> FALSE, status |-> r.status, df |-> r.df, msgs |-> r.msgs,
             entry |-> IF r.status = "ok"
                       THEN << [df |-> r.df, msgs |-> r.msgs] >>
                       ELSE NoEntry]

(* --------------------------- filter controls --------------------------- *)

DefaultMinHour == 0

DefaultMaxHour == 23

DefaultMinAmt == 0

DefaultMaxAmt == 1000

(* Positions the user can drag a slider handle to. *)
HourStops == {0, 1, 2, 5, 10, 15, 20, 23}

AmtStops == {0, 10, 15, 20, 50, 100, 500, 1000}

Min(S) == CHOOSE x \in S : \A y \in S : x <= y

Max(S) == CHOOSE x \in S : \A y \in S : x >= y

Column(rows, name) == { rows[i][name] : i \in DOMAIN rows }

(* Series.min() / Series.max() guarded by isnull().all(), lines 82-83, 92-93 *)
series_min(rows, name, default) ==
    IF Column(rows, name) = {} THEN default ELSE Min(Column(rows, name))

series_max(rows, name, default) ==
    IF Column(rows, name) = {} THEN default ELSE Max(Column(rows, name))

(* Python's order on the category strings. *)
StrRank == ("" :> 0) @@ ("A" :> 1) @@ ("B" :> 2) @@ ("C" :> 3)

(* sorted() compares a float NaN with a str and raises TypeError. *)
sorted_raises(S) == NaN \in S /\ S # {NaN}

RECURSIVE sorted(_)
sorted(S) ==
    IF S = {} THEN <<>>
    ELSE LET m == CHOOSE x \in S : \A y \in S : StrRank[x] <= StrRank[y]
         IN <<m>> \o sorted(S \ {m})

Ranges(lo, hi, stops) ==
    { <<a, b>> : a \in (stops \cup {lo, hi}), b \in (stops \cup {lo, hi}) }

SliderValues(lo, hi, stops) ==
    { r \in Ranges(lo, hi, stops) : lo <= r[1] /\ r[1] <= r[2] /\ r[2] <= hi }

(* ----------------------------- filter engine --------------------------- *)

Matches_exclusive_upper(row, tr, ar, cats) ==
    /\ row.hour >= tr[1]
    /\ row.hour < tr[2]
    /\ row.amt >= ar[1]
    /\ row.amt <= ar[2]
    /\ row.category \in cats

Matches_without_category(row, tr, ar, cats) ==
    /\ row.hour >= tr[1]
    /\ row.hour <= tr[2]
    /\ row.amt >= ar[1]
    /\ row.amt <= ar[2]

Matches(row, tr, ar, cats) ==
    /\ row.hour >= tr[1]
    /\ row.hour <= tr[2]
    /\ row.amt >= ar[1]
    /\ row.amt <= ar[2]
    /\ row.category \in cats

apply(rows, tr, ar, cats) ==
    SelectRows(rows, [i \in DOMAIN rows |-> Matches(rows[i], tr, ar, cats)])

(* ------------------------------ renderer ------------------------------- *)

heatmap_data(rows) == { <<rows[i].hour, rows[i].weekday>> : i \in DOMAIN rows }

fraud_chart_unconditional(d, rows) == rows # <<>>

(* The condition of line 159. *)
fraud_chart_shown(d, rows) ==
    "is_fraud" \in d.columns /\ ~(\A i \in DOMAIN rows : isnull(rows[i].is_fraud))

(* Lines 127-165: the three charts of a non-empty filtered dataset. *)
charts(d, rows) ==
    << El("subheader", "Histogram", "", 0),
       El("chart", "Histogram", "amt", Len(rows)),
       El("subheader", "Heatmap", "", 0),
       El("chart", "Heatmap", "hour,weekday", Cardinality(heatmap_data(rows))) >>
    \o (IF fraud_chart_shown(d, rows)
        THEN << El("subheader", "FraudBox", "", 0),
                El("chart", "FraudBox", "is_fraud", Len(rows)) >>
        ELSE << El("info", "FraudColumnUnavailable", "", 0) >>)

visualizations_without_emptiness_test(d, rows) == charts(d, rows)

visualizations(d, rows) ==
    IF rows # <<>>
    THEN charts(d, rows)
    ELSE << El("warning", "NoDataAfterFilter", "", 0) >>

(* ------------------------------ the runs ------------------------------- *)

NoData == [columns |-> {}, rows |-> <<>>]

(* The script's names before a run has assigned them. *)
UnsetRange == <<0, 0>>

Init ==
    /\ file \in Files
    /\ cache = [p \in {file_path_to_csv} |-> NoEntry]
    /\ reads = 0
    /\ pc = "start"
    /\ cache_hit = FALSE
    /\ df = NoData
    /\ min_hour = 0
    /\ max_hour = 0
    /\ min_amt = 0
    /\ max_amt = 0
    /\ unique_categories = <<>>
    /\ time_range = UnsetRange
    /\ amount_range = UnsetRange
    /\ merchant_category = {}
    /\ df_filtered = <<>>
    /\ out = <<>>

(* st.stop() ends the run where load_data fails; otherwise line 76 binds   *)
(* df and the script goes on to the controls.                              *)
after_load_without_stop(status) == "controls"

after_load(status) == IF status = "ok" THEN "controls" ELSE "stopped"

(* Lines 7-76: page title, then df = load_data(file_path_to_csv). *)
Load ==
    /\ pc = "start"
    /\ LET r == cached_load_data(cache[file_path_to_csv], file)
       IN /\ r.hit \/ reads < MaxReads
          /\ cache_hit' = r.hit
          /\ reads' = IF r.hit THEN reads ELSE reads + 1
          /\ cache' = [cache EXCEPT ![file_path_to_csv] = r.entry]
          /\ out' = << El("title", "Dashboard", "", 0) >> \o r.msgs
          /\ df' = r.df
          /\ pc' = after_load(r.status)
    /\ UNCHANGED <<file, min_hour, max_hour, min_amt, max_amt, unique_categories,
                   time_range, amount_range, merchant_category, df_filtered>>

(* Lines 79-108: the sidebar header, the two sliders and the multiselect;  *)
(* the widgets return whatever the user currently has selected.            *)
Controls ==
    /\ pc = "controls"
    /\ LET lo_h == series_min(df.rows, "hour", DefaultMinHour)
           hi_h == series_max(df.rows, "hour", DefaultMaxHour)
           lo_a == series_min(df.rows, "amt", DefaultMinAmt)
           hi_a == series_max(df.rows, "amt", DefaultMaxAmt)
           cats == Column(df.rows, "category")
           sliders == << El("header", "Filters", "", 0),
                         El("widget", "HourRange", "", 0),
                         El("widget", "AmountRange", "", 0) >>
       IN /\ min_hour' = lo_h /\ max_hour' = hi_h
          /\ min_amt' = lo_a /\ max_amt' = hi_a
          /\ \E tr \in SliderValues(lo_h, hi_h, HourStops),
                ar \in SliderValues(lo_a, hi_a, AmtStops) :
               /\ time_range' = tr
               /\ amount_range' = ar
               /\ IF sorted_raises(cats)
                  THEN /\ out' = out \o sliders \o << El("exception", "TypeError", "", 0) >>
                       /\ pc' = "crashed"
                       /\ UNCHANGED <<unique_categories, merchant_category>>
                  ELSE /\ unique_categories' = sorted(cats)
                       /\ \E sel \in SUBSET cats : merchant_category' = sel
                       /\ out' = out \o sliders \o << El("widget", "MerchantCategory", "", 0) >>
                       /\ pc' = "filter"
    /\ UNCHANGED <<file, cache, reads, cache_hit, df, df_filtered>>

(* Lines 112-122. *)
Filter ==
    /\ pc = "filter"
    /\ IF df.rows # <<>>
       THEN /\ df_filtered' = apply(df.rows, time_range, amount_range, merchant_category)
            /\ out' = out
       ELSE /\ df_filtered' = <<>>
            /\ out' = Append(out, El("warning", "NoDataLoaded", "", 0))
    /\ pc' = "render"
    /\ UNCHANGED <<file, cache, reads, cache_hit, df, min_hour, max_hour, min_amt,
                   max_amt, unique_categories, time_range, amount_range,
                   merchant_category>>

(* Lines 126-168. *)
Render ==
    /\ pc = "render"
    /\ out' = out \o visualizations(df, df_filtered)
    /\ pc' = "end"
    /\ UNCHANGED <<file, cache, reads, cache_hit, df, min_hour, max_hour, min_amt,
                   max_amt, unique_categories, time_range, amount_range,
                   merchant_category, df_filtered>>

RunOver == pc \in {"end", "stopped", "crashed"}

(* A user interaction: the script is evaluated again from the top in a     *)
(* fresh namespace; only the cache survives.                               *)
Rerun ==
    /\ RunOver
    /\ pc' = "start"
    /\ cache_hit' = FALSE
    /\ df' = NoData
    /\ min_hour' = 0
    /\ max_hour' = 0
    /\ min_amt' = 0
    /\ max_amt' = 0
    /\ unique_categories' = <<>>
    /\ time_range' = UnsetRange
    /\ amount_range' = UnsetRange
    /\ merchant_category' = {}
    /\ df_filtered' = <<>>
    /\ out' = <<>>
    /\ UNCHANGED <<file, cache, reads>>

(* The environment replaces or removes the file between two runs. *)
ReplaceFile ==
    /\ pc = "start"
    /\ \E f \in AltFiles \ {file} : file' = f
    /\ UNCHANGED <<cache, reads, pc, cache_hit, df, min_hour, max_hour, min_amt,
                   max_amt, unique_categories, time_range, amount_range,
                   merchant_category, df_filtered, out>>

Next == Load \/ Controls \/ Filter \/ Render \/ Rerun \/ ReplaceFile

Spec == Init /\ [][Next]_vars

InitExample ==
    /\ file = ExampleFile
    /\ cache = [p \in {file_path_to_csv} |-> NoEntry]
    /\ reads = 0
    /\ pc = "start"
    /\ cache_hit = FALSE
    /\ df = NoData
    /\ min_hour = 0
    /\ max_hour = 0
    /\ min_amt = 0
    /\ max_amt = 0
    /\ unique_categories = <<>>
    /\ time_range = UnsetRange
    /\ amount_range = UnsetRange
    /\ merchant_category = {}
    /\ df_filtered = <<>>
    /\ out = <<>>

NextExample == Load \/ Controls \/ Filter \/ Render \/ Rerun

SpecExample == InitExample /\ [][NextExample]_vars

TypeOK == pc \in {"start", "controls", "filter", "render", "end", "stopped", "crashed"}

(* ------------------------------ properties ---------------------------- *)

path_entry == cache[file_path_to_csv]

(* This run executed the body of load_data on the current file. *)
FreshLoad == pc # "start" /\ ~cache_hit

HasEl(e, i) == \E k \in DOMAIN out : out[k].el = e /\ out[k].id = i

HasKind(e) == \E k \in DOMAIN out : out[k].el = e

PosOf(e, i) == CHOOSE k \in DOMAIN out : out[k].el = e /\ out[k].id = i

TitleEl == El("title", "Dashboard", "", 0)

(* Nothing but the page title and the error report was produced. *)
OnlyErrorShown ==
    /\ ~HasKind("widget") /\ ~HasKind("chart") /\ ~HasKind("warning")
    /\ ~HasKind("info") /\ ~HasKind("header") /\ ~HasKind("subheader")
    /\ df_filtered = <<>>
    /\ merchant_category = {}
    /\ time_range = UnsetRange

InSelection(r) ==
    /\ time_range[1] <= r.hour /\ r.hour <= time_range[2]
    /\ amount_range[1] <= r.amt /\ r.amt <= amount_range[2]
    /\ r.category \in merchant_category

Satisfying == { i \in DOMAIN df.rows : InSelection(df.rows[i]) }

NthOf(S, k) == CHOOSE i \in S : Cardinality({ j \in S : j < i }) = k - 1

(* C1: once the filter step has run on a non-empty dataset, the filtered   *)
(* dataset is exactly the rows of the dataset, in order, whose hour and    *)
(* amount lie within the selected inclusive ranges and whose category is   *)
(* selected: nothing else is in it and no such row is left out.            *)
C1_FilterExact ==
    (pc \in {"render", "end"} /\ df.rows # <<>>) =>
        /\ Len(df_filtered) = Cardinality(Satisfying)
        /\ \A k \in 1..Len(df_filtered) : df_filtered[k] = df.rows[NthOf(Satisfying, k)]

C1_Witness ==
    /\ pc = "end"
    /\ Len(df.rows) = 2
    /\ Len(df_filtered) = 1
    /\ df_filtered[1] = df.rows[2]
    /\ time_range[1] = df.rows[2].hour
    /\ amount_range[2] = df.rows[2].amt

Fields(rows, name) == [i \in DOMAIN rows |-> rows[i][name]]

ExampleLoaded ==
    /\ Fields(df.rows, "hour") = <<1, 5, 10, 15, 20>>
    /\ Fields(df.rows, "amt") = <<10, 50, 100, 500, 1000>>
    /\ Fields(df.rows, "category") = <<"A", "B", "A", "C", "B">>

ExampleSelection ==
    /\ time_range = <<1, 15>>
    /\ amount_range = <<10, 500>>
    /\ merchant_category = {"A", "B"}

(* C2 as stated: on the five-row sample, the selection hour 1..15, amount  *)
(* 10..500, categories A and B leaves exactly two rows: hour 1 (10, A),    *)
(* hour 5 (50, B).                                                         *)
C2_Original ==
    (pc \in {"render", "end"} /\ ExampleLoaded /\ ExampleSelection) =>
        /\ Fields(df_filtered, "hour") = <<1, 5>>
        /\ Fields(df_filtered, "amt") = <<10, 50>>
        /\ Fields(df_filtered, "category") = <<"A", "B">>

(* C2 amended: the same selection on the same sample leaves exactly three  *)
(* rows: hour 1 (10, A), hour 5 (50, B) and hour 10 (100, A).              *)
C2_Amended ==
    (pc \in {"render", "end"} /\ ExampleLoaded /\ ExampleSelection) =>
        /\ Fields(df_filtered, "hour") = <<1, 5, 10>>
        /\ Fields(df_filtered, "amt") = <<10, 50, 100>>
        /\ Fields(df_filtered, "category") = <<"A", "B", "A">>

C2_Witness ==
    pc = "end" /\ ExampleLoaded /\ ExampleSelection /\ Len(df_filtered) = 3

LacksRequired(f) == f.kind = "table" /\ ~(RequiredSet \subseteq f.columns)

(* The first required column, in the order hour, amt, category, weekday,   *)
(* that the columns do not contain.                                       *)
IsFirstLacking(name, cols) ==
    \E i \in DOMAIN required_columns :
        /\ required_columns[i] = name
        /\ name \notin cols
        /\ \A j \in 1..(i - 1) : required_columns[j] \in cols

(* C3: reading a file that lacks a required column ends the run with the   *)
(* MissingColumn error naming the first lacking column, and no dataset.    *)
C3_MissingColumn ==
    (FreshLoad /\ LacksRequired(file)) =>
        /\ pc = "stopped"
        /\ Len(out) = 2
        /\ out[1] = TitleEl
        /\ out[2].el = "error" /\ out[2].id = "MissingColumn"
        /\ IsFirstLacking(out[2].arg, file.columns)
        /\ df = NoData
        /\ path_entry = NoEntry
        /\ OnlyErrorShown

C3_Witness ==
    /\ pc = "stopped"
    /\ ~cache_hit
    /\ file.kind = "table"
    /\ "hour" \in file.columns /\ "amt" \notin file.columns /\ "weekday" \notin file.columns
    /\ HasEl("error", "MissingColumn")
    /\ out[2].arg = "amt"

FatalIds == {"FileNotFound", "EmptyData", "MissingColumn", "UnexpectedLoadFailure"}

FatalShown == \E k \in DOMAIN out : out[k].el = "error" /\ out[k].id \in FatalIds

(* The body of load_data cannot return a dataset for this file. *)
Unloadable(f) ==
    \/ f.kind \in {"missing", "empty", "unreadable"}
    \/ LacksRequired(f)
    \/ f.kind = "table" /\ \E i \in DOMAIN f.rows : f.rows[i].hour.kind = "half"

(* C4: a fatal load failure halts the run: no dataset, no cache entry, no  *)
(* control, filter step, chart or notice, and the only way on is a new     *)
(* run; a file that does not exist is reported as FileNotFound.            *)
C4_FatalHalts ==
    /\ [](FatalShown => (pc = "stopped" /\ df = NoData /\ path_entry = NoEntry
                            /\ OnlyErrorShown))
    /\ []((FreshLoad /\ Unloadable(file)) => (pc = "stopped" /\ FatalShown))
    /\ []((FreshLoad /\ file.kind = "missing") =>
             out = << TitleEl, El("error", "FileNotFound", file_path_to_csv, 0),
                      El("markdown", "ProjectLayout", "", 0) >>)
    /\ [][pc = "stopped" => (pc' = "start" /\ out' = <<>>)]_vars

C4_Witness ==
    /\ pc = "stopped"
    /\ ~cache_hit
    /\ file.kind = "missing"
    /\ HasEl("error", "FileNotFound")
    /\ reads = 1

HeaderOnly(f) == f.kind = "table" /\ RequiredSet \subseteq f.columns /\ f.rows = <<>>

EmptyDataHalt ==
    /\ pc = "stopped"
    /\ out = << TitleEl, El("error", "EmptyData", file_path_to_csv, 0) >>
    /\ df = NoData
    /\ path_entry = NoEntry
    /\ OnlyErrorShown

(* C5 as stated: every file without data rows, whether it is completely    *)
(* empty or only a header naming the required columns, ends the run with   *)
(* EmptyData and nothing else.                                             *)
C5_Original ==
    (FreshLoad /\ (file.kind = "empty" \/ HeaderOnly(file))) => EmptyDataHalt

(* C5 amended: a completely empty file ends the run with EmptyData and     *)
(* nothing else; a header-only file naming the required columns loads as   *)
(* an empty dataset, the run goes on, the filter engine is not applied     *)
(* and the run ends with the two no-data warnings and no chart.            *)
C5_Amended ==
    /\ (FreshLoad /\ file.kind = "empty") => EmptyDataHalt
    /\ (FreshLoad /\ HeaderOnly(file)) =>
          /\ pc \notin {"stopped", "crashed"}
          /\ df = [columns |-> file.columns, rows |-> <<>>]
          /\ ~FatalShown
          /\ df_filtered = <<>>
          /\ pc = "end" =>
                /\ HasEl("widget", "HourRange") /\ HasEl("widget", "AmountRange")
                /\ HasEl("widget", "MerchantCategory")
                /\ min_hour = 0 /\ max_hour = 23 /\ min_amt = 0 /\ max_amt = 1000
                /\ unique_categories = <<>>
                /\ ~HasKind("chart")
                /\ out[Len(out) - 1] = El("warning", "NoDataLoaded", "", 0)
                /\ out[Len(out)] = El("warning", "NoDataAfterFilter", "", 0)

C5_Witness == FreshLoad /\ file.kind = "empty" /\ EmptyDataHalt /\ reads = 1

NullAfterCoercion(c) == c.kind \in {"text", "blank"}

KeptIdx(f) ==
    { i \in DOMAIN f.rows :
        ~NullAfterCoercion(f.rows[i].hour) /\ ~NullAfterCoercion(f.rows[i].amt) }

(* C6: a file with all required columns loads; the dataset is the rows     *)
(* whose hour and amt are not null after coercion, in file order; the      *)
(* RowsDropped warning is shown exactly when rows were dropped and counts  *)
(* them.                                                                  *)
C6_DropsExactly ==
    (FreshLoad /\ file.kind = "table" /\ RequiredSet \subseteq file.columns) =>
        /\ pc # "stopped"
        /\ Len(df.rows) = Cardinality(KeptIdx(file))
        /\ \A k \in 1..Len(df.rows) :
              LET src == file.rows[NthOf(KeptIdx(file), k)]
              IN /\ src.hour.kind = "int" /\ df.rows[k].hour = src.hour.v
                 /\ src.amt.kind = "int" /\ df.rows[k].amt = src.amt.v
                 /\ df.rows[k].category = src.category
        /\ LET dropped == Len(file.rows) - Cardinality(KeptIdx(file))
           IN IF dropped > 0
              THEN out[2] = El("warning", "RowsDropped", "", dropped)
              ELSE ~HasEl("warning", "RowsDropped")

SomeNonNullFraud == \E i \in DOMAIN df_filtered : df_filtered[i].is_fraud # "NA"

(* C7: in a run that renders, the histogram comes first, then the heatmap, *)
(* then either the fraud chart or the notice, never both; the fraud chart  *)
(* appears only when the dataset has an is_fraud column and the filtered   *)
(* rows hold a non-null is_fraud value; without the column it never does.  *)
C7_FraudChart ==
    /\ "is_fraud" \notin df.columns => ~HasEl("chart", "FraudBox")
    /\ (pc = "end" /\ df_filtered # <<>>) =>
          /\ HasEl("chart", "Histogram") /\ HasEl("chart", "Heatmap")
          /\ PosOf("chart", "Histogram") < PosOf("chart", "Heatmap")
          /\ HasEl("chart", "FraudBox") => ("is_fraud" \in df.columns /\ SomeNonNullFraud)
          /\ HasEl("chart", "FraudBox") # HasEl("info", "FraudColumnUnavailable")
          /\ ~("is_fraud" \in df.columns /\ SomeNonNullFraud) =>
                HasEl("info", "FraudColumnUnavailable")
          /\ out[Len(out)].id \in {"FraudBox", "FraudColumnUnavailable"}
          /\ PosOf("chart", "Heatmap") < Len(out)

C7_Witness ==
    /\ pc = "end"
    /\ df_filtered # <<>>
    /\ "is_fraud" \notin df.columns
    /\ HasEl("chart", "Histogram")
    /\ HasEl("chart", "Heatmap")
    /\ out[Len(out)] = El("info", "FraudColumnUnavailable", "", 0)

(* C8: at the end of a run on a non-empty dataset, if no row is within     *)
(* the selection then no chart was rendered and the no-match notice was    *)
(* shown; if the filtered dataset is non-empty the notice was not shown    *)
(* and the histogram and the heatmap were rendered.                        *)
C8_NoMatchNotice ==
    pc = "end" =>
        /\ (df.rows # <<>> /\ Satisfying = {}) =>
              (~HasKind("chart") /\ HasEl("warning", "NoDataAfterFilter"))
        /\ df_filtered # <<>> =>
              /\ ~HasEl("warning", "NoDataAfterFilter")
              /\ HasEl("chart", "Histogram")
              /\ HasEl("chart", "Heatmap")

C8_Witness ==
    /\ pc = "end"
    /\ df.rows # <<>>
    /\ Satisfying = {}
    /\ merchant_category # {}
    /\ out[Len(out)] = El("warning", "NoDataAfterFilter", "", 0)

(* C9: a cache entry, once stored, is never changed and the file is not    *)
(* read again; an entry is stored only by a load that returned, with the   *)
(* dataset it returned; a failed load stores nothing; every run past the   *)
(* load works on the cached dataset.                                       *)
C9_CacheOnce ==
    /\ [][path_entry # NoEntry => (cache' = cache /\ reads' = reads)]_vars
    /\ [][(path_entry = NoEntry /\ cache' # cache) =>
             (pc = "start" /\ pc' = "controls" /\ reads' = reads + 1
                /\ cache'[file_path_to_csv] = << [df |-> df', msgs |-> Tail(out')] >>)]_vars
    /\ [][pc' = "stopped" => cache' = cache]_vars
    /\ [](pc \in {"controls", "filter", "render", "end", "crashed"} =>
             (path_entry # NoEntry /\ df = path_entry[1].df))

C9_Witness ==
    /\ pc = "end"
    /\ cache_hit
    /\ file = MissingFile
    /\ df.rows # <<>>
    /\ reads = 1

IsSortedDistinct(s, S) ==
    /\ RangeOf(s) = S
    /\ \A i, j \in DOMAIN s : i < j => StrRank[s[i]] < StrRank[s[j]]

(* C10: once the controls have been built, the hour and amount bounds are  *)
(* the exact minimum and maximum over the dataset (0, 23 and 0, 1000 for   *)
(* an empty dataset), the category options are the sorted distinct         *)
(* categories, and the untouched defaults retain every row.                *)
C10_Defaults ==
    pc \in {"filter", "render", "end", "crashed"} =>
        /\ IF df.rows = <<>>
           THEN min_hour = 0 /\ max_hour = 23 /\ min_amt = 0 /\ max_amt = 1000
           ELSE /\ \E i \in DOMAIN df.rows : df.rows[i].hour = min_hour
                /\ \E i \in DOMAIN df.rows : df.rows[i].hour = max_hour
                /\ \E i \in DOMAIN df.rows : df.rows[i].amt = min_amt
                /\ \E i \in DOMAIN df.rows : df.rows[i].amt = max_amt
                /\ \A i \in DOMAIN df.rows :
                      /\ min_hour <= df.rows[i].hour /\ df.rows[i].hour <= max_hour
                      /\ min_amt <= df.rows[i].amt /\ df.rows[i].amt <= max_amt
        /\ IsSortedDistinct(unique_categories, Column(df.rows, "category"))
        /\ HasEl("widget", "MerchantCategory")
        /\ (pc \in {"render", "end"} /\ time_range = <<min_hour, max_hour>>
              /\ amount_range = <<min_amt, max_amt>>
              /\ merchant_category = RangeOf(unique_categories)) =>
                 df_filtered = df.rows

====
